---- MODULE Spec2Model ----
(***************************************************************************)
(* openstack_balancer: the VM balancer's orchestrator (manager.py), node   *)
(* classifier (manager.py, utils.py), migration planner with its simulated *)
(* state (migration_planner.py) and executor (manager.py).                 *)
(*                                                                         *)
(* Numbers.  The code computes ratios in floating point.  The model keeps  *)
(* them as exact fractions [n, d] with d > 0 and compares them by cross    *)
(* multiplication; 8.0 is 8/1, 1.5 is 3/2, 0.9 is 9/10, a threshold t is   *)
(* t/10.  Resource amounts are small integers in abstract units.           *)
(***************************************************************************)
EXTENDS Integers, Sequences, FiniteSets, TLC

VARIABLES
    scenario,             \* which family of cloud answers this run draws from
    pc,                   \* position of balance_nodes: idle, classified, planning,
                          \* executing, done (returned), raised (exception left it)
    outcome,              \* which return/raise of balance_nodes was taken
    dry_run,              \* OpenStackVMManager.dry_run
    threshold,            \* argument of balance_nodes, in tenths
    hypervisors,          \* result of fetch_hypervisor_details (list of dicts)
    overutilized,         \* identify_node_groups result, first list (hostnames in list order)
    underutilized,        \* identify_node_groups result, second list
    planner_made,         \* TRUE once MigrationPlanner(...) has been constructed
    sim_order,            \* insertion order of the dict MigrationPlanner.simulated_states
    simulated_states,     \* hostname -> SimulatedState
    provider_uuid_cache,  \* hostnames with an entry in MigrationPlanner.provider_uuid_cache
    host_traits_cache,    \* MigrationPlanner.host_traits_cache, hostname -> trait set
    servers,              \* the cloud's servers: hostname -> list of VM records
    host_traits,          \* the placement service's traits: hostname -> trait set
    candidates,           \* list returned by get_migration_candidates
    ci,                   \* index of the next candidate of the loop in plan_migrations
    planned_migrations,   \* plan_migrations' list of (vm, source, target)
    ei,                   \* index of the next plan entry of the executor loop
    migrations_attempted,
    migrations_successful,
    live_migrate_calls,   \* live_migrate_server calls dispatched to the cloud, in order
    sim0,                 \* simulated_states right after init_simulation
    decisions,            \* per handled candidate: what get_best_target saw and answered
    listing_failed,       \* the hosts whose server listing raised in get_migration_candidates
    twin,                 \* a second MigrationPlanner, of a manager with the other dry_run flag
    compute_flavors,      \* what conn.compute.flavors() enumerates, in its order
    manager_flavor_cache  \* OpenStackVMManager.flavor_cache ("unset" before cache_flavors)

vars == << scenario, pc, outcome, dry_run, threshold, hypervisors, overutilized, underutilized,
           planner_made, sim_order, simulated_states, provider_uuid_cache,
           host_traits_cache, servers, host_traits, candidates, ci,
           planned_migrations, ei, migrations_attempted, migrations_successful,
           live_migrate_calls, sim0, decisions, listing_failed, twin,
           compute_flavors, manager_flavor_cache >>

(***************************************************************************)
(* Program constants (config.py).                                          *)
(***************************************************************************)
CPU_ALLOCATION_RATIO == 8
RAM_ALLOCATION_RATIO_NUM == 3
RAM_ALLOCATION_RATIO_DEN == 2
TARGET_FRACTION_NUM == 9
TARGET_FRACTION_DEN == 10
DEFAULT_THRESHOLD == 12
THRESHOLD_DEN == 10

(***************************************************************************)
(* Bounds of the model.                                                    *)
(***************************************************************************)
MaxRunningVms == 2
HostVcpus == 1
\* The largest running_vms of a host in runs of the classifier alone.
MaxCountedVms == 6

(***************************************************************************)
(* Exact fractions.                                                        *)
(***************************************************************************)
RECURSIVE GCD(_, _)
GCD(a, b) == IF b = 0 THEN a ELSE GCD(b, a % b)

\* The fraction n/d (d > 0) in lowest terms.
Rat(n, d) ==
    LET g == GCD(IF n < 0 THEN 0 - n ELSE n, d)
    IN  [n |-> n \div g, d |-> d \div g]
RZero == Rat(0, 1)
RLt(a, b) == a.n * b.d < b.n * a.d
RLe(a, b) == a.n * b.d <= b.n * a.d
RAdd(a, b) == Rat(a.n * b.d + b.n * a.d, a.d * b.d)
RSub(a, b) == Rat(a.n * b.d - b.n * a.d, a.d * b.d)
RMul(a, b) == Rat(a.n * b.n, a.d * b.d)
RAbs(a) == IF a.n < 0 THEN Rat(0 - a.n, a.d) ELSE a
\* Python's max(a, b) and min(a, b) return the first argument unless the second is
\* strictly greater (smaller).
RMax(a, b) == IF RLt(a, b) THEN b ELSE a
RMin(a, b) == IF RLt(b, a) THEN b ELSE a

Range(s) == {s[i] : i \in 1..Len(s)}

RECURSIVE SeqSum(_)
SeqSum(s) == IF s = << >> THEN RZero ELSE RAdd(s[1], SeqSum(Tail(s)))

RECURSIVE SeqMax(_)
SeqMax(s) == IF Len(s) = 1 THEN s[1] ELSE RMax(s[1], SeqMax(Tail(s)))

RECURSIVE SeqMin(_)
SeqMin(s) == IF Len(s) = 1 THEN s[1] ELSE RMin(s[1], SeqMin(Tail(s)))


(***************************************************************************)
(* The cloud's data, as far as the program reads it.                       *)
(***************************************************************************)
Traits == {"GPU"}

\* A key of Flavor.extra_specs is prefix ":" rest; "trait:GPU" is ["trait", "GPU"].
ExtraSpec(prefix, rest, value) == [prefix |-> prefix, rest |-> rest, value |-> value]

\* The flavors the cloud enumerates for cache_flavors, in the cloud's order.
FlavorList ==
    << [id |-> "f1", name |-> "small", vcpus |-> 2, ram |-> 1, extra_specs |-> {}],
       [id |-> "f2", name |-> "big", vcpus |-> 4, ram |-> 2,
        extra_specs |-> {ExtraSpec("hw", "cpu_policy", "required")}],
       [id |-> "f3", name |-> "gpu", vcpus |-> 2, ram |-> 1,
        extra_specs |-> {ExtraSpec("trait", "GPU", "REQUIRED"),
                         ExtraSpec("trait", "SSD", "preferred")}],
       [id |-> "f4", name |-> "large", vcpus |-> 4, ram |-> 8192, extra_specs |-> {}] >>

\* str.lower() and str.upper() on the values the model uses.
Lower(s) == CASE s = "REQUIRED" -> "required"
              [] s = "Required" -> "required"
              [] OTHER -> s
Upper(s) == CASE s = "active" -> "ACTIVE"
              [] s = "shutoff" -> "SHUTOFF"
              [] OTHER -> s

RECURSIVE cache_flavors_from(_, _)
cache_flavors_from(flavors, flavor_cache) ==
    IF flavors = << >> THEN flavor_cache
    ELSE LET flavor == flavors[1]
             byId == [k \in DOMAIN flavor_cache \cup {flavor.id} |->
                         IF k = flavor.id THEN flavor ELSE flavor_cache[k]]
             byName == [k \in DOMAIN byId \cup {flavor.name} |->
                         IF k = flavor.name THEN flavor ELSE byId[k]]
         IN  cache_flavors_from(Tail(flavors), byName)

cache_flavors(flavors) == cache_flavors_from(flavors, << >>)

flavor_cache == cache_flavors(FlavorList)

(***************************************************************************)
(* SimulatedState and its properties.                                      *)
(***************************************************************************)
SimulatedState(hypervisor) ==
    [vcpus_total |-> hypervisor.vcpus,
     vcpus_used |-> hypervisor.vcpus_used,
     memory_mb_total |-> hypervisor.memory_mb,
     memory_mb_used |-> hypervisor.memory_mb_used,
     running_vms |-> hypervisor.running_vms,
     planned_migrations_in |-> {},
     planned_migrations_out |-> {}]

available_vcpus(state) ==
    Rat(state.vcpus_total * CPU_ALLOCATION_RATIO - state.vcpus_used, 1)

available_memory(state) ==
    Rat(state.memory_mb_total * RAM_ALLOCATION_RATIO_NUM
            - state.memory_mb_used * RAM_ALLOCATION_RATIO_DEN,
        RAM_ALLOCATION_RATIO_DEN)

cpu_ratio(state) ==
    IF state.vcpus_total > 0
    THEN Rat(state.vcpus_used, state.vcpus_total * CPU_ALLOCATION_RATIO)
    ELSE Rat(1, 1)

memory_ratio(state) ==
    IF state.memory_mb_total > 0
    THEN Rat(state.memory_mb_used * RAM_ALLOCATION_RATIO_DEN,
             state.memory_mb_total * RAM_ALLOCATION_RATIO_NUM)
    ELSE Rat(1, 1)

calculate_node_utilization(state) == RMax(cpu_ratio(state), memory_ratio(state))

\* init_simulation: the dict keeps the order in which hostnames were first inserted.
init_simulation_order(hvs) == [i \in 1..Len(hvs) |-> hvs[i].hypervisor_hostname]

init_simulation(hvs) ==
    [h \in {hvs[i].hypervisor_hostname : i \in 1..Len(hvs)} |->
        SimulatedState(hvs[CHOOSE i \in 1..Len(hvs) :
            /\ hvs[i].hypervisor_hostname = h
            /\ \A j \in 1..Len(hvs) : hvs[j].hypervisor_hostname = h => j <= i])]

Utilizations(order, sim) == [i \in 1..Len(order) |-> calculate_node_utilization(sim[order[i]])]

\* calculate_cluster_metrics: (avg, min, max) of the node utilizations.
calculate_cluster_metrics(order, sim) ==
    IF order = << >>
    THEN [avg |-> RZero, min |-> RZero, max |-> RZero]
    ELSE LET utilizations == Utilizations(order, sim)
             total == SeqSum(utilizations)
         IN  [avg |-> Rat(total.n, total.d * Len(utilizations)),
              min |-> SeqMin(utilizations),
              max |-> SeqMax(utilizations)]

\* target_util = avg_util * 0.9, as computed in get_migration_candidates,
\* get_best_target and plan_migrations.
TargetUtil(order, sim) ==
    RMul(calculate_cluster_metrics(order, sim).avg,
         Rat(TARGET_FRACTION_NUM, TARGET_FRACTION_DEN))

(***************************************************************************)
(* Node classifier.                                                        *)
(***************************************************************************)
IsActive(hypervisor) == hypervisor.state = "up" /\ hypervisor.status = "enabled"

RECURSIVE SumRunning(_)
SumRunning(hvs) ==
    IF hvs = << >> THEN 0 ELSE hvs[1].running_vms + SumRunning(Tail(hvs))

calculate_average_vms(hvs) ==
    LET active_nodes == SelectSeq(hvs, IsActive)
    IN  IF active_nodes = << >> THEN RZero
        ELSE Rat(SumRunning(active_nodes), Len(active_nodes))

\* running_vms >= avg_vms * threshold
IsOver_or_equal(hypervisor, avg_vms, thr) ==
    RLe(RMul(avg_vms, Rat(thr, THRESHOLD_DEN)), Rat(hypervisor.running_vms, 1))

\* running_vms > avg_vms * threshold
IsOver(hypervisor, avg_vms, thr) ==
    RLt(RMul(avg_vms, Rat(thr, THRESHOLD_DEN)), Rat(hypervisor.running_vms, 1))

\* identify_node_groups without the test of state and status (lines 126-130).
identify_node_groups_any_state(hvs, avg_vms, thr) ==
    LET Over(hypervisor) == IsOver(hypervisor, avg_vms, thr)
        Under(hypervisor) == ~IsOver(hypervisor, avg_vms, thr)
    IN  [overutilized |-> SelectSeq(hvs, Over), underutilized |-> SelectSeq(hvs, Under)]

identify_node_groups(hvs, avg_vms, thr) ==
    LET Over(hypervisor) == IsActive(hypervisor) /\ IsOver(hypervisor, avg_vms, thr)
        Under(hypervisor) == IsActive(hypervisor) /\ ~IsOver(hypervisor, avg_vms, thr)
    IN  [overutilized |-> SelectSeq(hvs, Over), underutilized |-> SelectSeq(hvs, Under)]


(***************************************************************************)
(* Migration planner.                                                      *)
(***************************************************************************)
\* Required traits named by a flavor's extra specs: keys that start with "trait:"
\* and whose value lowercases to "required".
FlavorTraits(flavor) ==
    {e.rest : e \in {x \in flavor.extra_specs :
                        x.prefix = "trait" /\ Lower(x.value) = "required"}}

\* get_required_traits: vm_ok is whether GET /servers/{id} answered; on a failure
\* the except branch returns the empty set.
get_required_traits(vm, vm_ok) ==
    IF ~vm_ok THEN {}
    ELSE vm.hci_traits \cup
         (IF vm.flavor \in DOMAIN flavor_cache
          THEN FlavorTraits(flavor_cache[vm.flavor]) ELSE {})

\* What the placement service can answer to get_host_traits for a host.
PlacementOutcomes == {"ok", "no_provider", "provider_error", "traits_error"}

\* get_host_traits: the returned trait set and both caches afterwards.  pl is the
\* placement outcome used if the service is called; truth is the host's trait set.
get_host_traits(hostname, pl, truth, prov_cache, traits_cache) ==
    IF hostname \in DOMAIN traits_cache
    THEN [traits |-> traits_cache[hostname], prov |-> prov_cache, cache |-> traits_cache]
    ELSE IF hostname \notin prov_cache /\ pl \in {"no_provider", "provider_error"}
    THEN [traits |-> {}, prov |-> prov_cache, cache |-> traits_cache]
    ELSE IF pl = "traits_error"
    THEN [traits |-> {}, prov |-> prov_cache \cup {hostname}, cache |-> traits_cache]
    ELSE [traits |-> truth,
          prov |-> prov_cache \cup {hostname},
          cache |-> [k \in DOMAIN traits_cache \cup {hostname} |->
                        IF k = hostname THEN truth ELSE traits_cache[k]]]

\* check_trait_compatibility for one (vm, target_host).
check_trait_compatibility(vm, target_host, vm_ok, pl, truth, prov_cache, traits_cache) ==
    LET required_traits == get_required_traits(vm, vm_ok)
    IN  IF required_traits = {} THEN TRUE
        ELSE LET got == get_host_traits(target_host, pl, truth, prov_cache, traits_cache)
             IN  required_traits \ got.traits = {}

\* Lines 222-227 evaluated once, on the state the simulation started from.
UnderutilizedHosts_at_start(order, sim) ==
    LET target_util == TargetUtil(order, sim0)
        AtOrBelow(h) == RLe(calculate_node_utilization(sim0[h]), target_util)
    IN  SelectSeq(order, AtOrBelow)

\* Lines 224-227: the hosts at or below the target utilization, in dict order.
UnderutilizedHosts(order, sim) ==
    LET target_util == TargetUtil(order, sim)
        AtOrBelow(h) == RLe(calculate_node_utilization(sim[h]), target_util)
    IN  SelectSeq(order, AtOrBelow)

\* The resource test of lines 241-242 left out.
HasRoom_unchecked(state, flavor) == TRUE

\* Lines 240-243: the host is neither the source nor short of resources.
HasRoom(state, flavor) ==
    /\ ~RLt(available_vcpus(state), Rat(flavor.vcpus, 1))
    /\ ~RLt(available_memory(state), Rat(flavor.ram, 1))

\* The test hostname == source of line 240 left out.
RoomyHosts_with_source(order, sim, source, flavor) ==
    LET Keep(h) == HasRoom(sim[h], flavor)
    IN  SelectSeq(UnderutilizedHosts(order, sim), Keep)

RoomyHosts(order, sim, source, flavor) ==
    LET Keep(h) == h # source /\ HasRoom(sim[h], flavor)
    IN  SelectSeq(UnderutilizedHosts(order, sim), Keep)

\* Lines 250-255; the caller makes sure both totals are positive.
PostMoveUtilization(state, flavor) ==
    RMax(Rat(state.vcpus_used + flavor.vcpus, state.vcpus_total * CPU_ALLOCATION_RATIO),
         Rat((state.memory_mb_used + flavor.ram) * RAM_ALLOCATION_RATIO_DEN,
             state.memory_mb_total * RAM_ALLOCATION_RATIO_NUM))

Score(state, flavor, target_util) ==
    RAbs(RSub(PostMoveUtilization(state, flavor), target_util))

\* The loop of lines 237-262 stopping at the first host that passed the filters.
BestOf_first(hosts, sim, flavor, target_util, best_target, best_score) ==
    IF hosts = << >> THEN best_target ELSE hosts[1]

RECURSIVE BestOf(_, _, _, _, _, _)
\* Lines 237-262 over the hosts that passed the filters: the first host whose score
\* is strictly below every score seen before it.
BestOf(hosts, sim, flavor, target_util, best_target, best_score) ==
    IF hosts = << >> THEN best_target
    ELSE LET score == Score(sim[hosts[1]], flavor, target_util)
         IN  IF best_target = "none" \/ RLt(score, best_score)
             THEN BestOf(Tail(hosts), sim, flavor, target_util, hosts[1], score)
             ELSE BestOf(Tail(hosts), sim, flavor, target_util, best_target, best_score)

\* get_best_target once the trait checks are known: compatible is the set of hosts
\* whose check_trait_compatibility returned True.  "none" is Python's None and
\* "ZeroDivisionError" the exception of lines 253-254 on a host without capacity.
get_best_target(order, sim, source, flavor, compatible) ==
    LET Ok(h) == h \in compatible
        hosts == SelectSeq(RoomyHosts(order, sim, source, flavor), Ok)
        Broken(h) == sim[h].vcpus_total = 0 \/ sim[h].memory_mb_total = 0
    IN  IF \E i \in 1..Len(hosts) : Broken(hosts[i])
        THEN "ZeroDivisionError"
        ELSE BestOf(hosts, sim, flavor, TargetUtil(order, sim), "none", RZero)

\* register_migration without lines 277-281: the target's state is left alone.
register_migration_source_only(sim, vm_id, source, target, flavor) ==
    [sim EXCEPT ![source] =
        [@ EXCEPT !.vcpus_used = @ - flavor.vcpus,
                  !.memory_mb_used = @ - flavor.ram,
                  !.running_vms = @ - 1,
                  !.planned_migrations_out = @ \cup {vm_id}]]

\* register_migration without line 280: the target's running_vms is not counted up.
register_migration_no_count(sim, vm_id, source, target, flavor) ==
    LET afterSource ==
            [sim EXCEPT ![source] =
                [@ EXCEPT !.vcpus_used = @ - flavor.vcpus,
                          !.memory_mb_used = @ - flavor.ram,
                          !.running_vms = @ - 1,
                          !.planned_migrations_out = @ \cup {vm_id}]]
    IN  [afterSource EXCEPT ![target] =
            [@ EXCEPT !.vcpus_used = @ + flavor.vcpus,
                      !.memory_mb_used = @ + flavor.ram,
                      !.planned_migrations_in = @ \cup {vm_id}]]

\* register_migration.
register_migration(sim, vm_id, source, target, flavor) ==
    LET afterSource ==
            [sim EXCEPT ![source] =
                [@ EXCEPT !.vcpus_used = @ - flavor.vcpus,
                          !.memory_mb_used = @ - flavor.ram,
                          !.running_vms = @ - 1,
                          !.planned_migrations_out = @ \cup {vm_id}]]
    IN  [afterSource EXCEPT ![target] =
            [@ EXCEPT !.vcpus_used = @ + flavor.vcpus,
                      !.memory_mb_used = @ + flavor.ram,
                      !.running_vms = @ + 1,
                      !.planned_migrations_in = @ \cup {vm_id}]]

\* A host's servers taken twice into the candidate list.
HostCandidates_twice(hostname, vms) ==
    LET Keep(vm) == Upper(vm.status) = "ACTIVE" /\ vm.flavor \in DOMAIN flavor_cache
        kept == SelectSeq(vms, Keep) \o SelectSeq(vms, Keep)
    IN  [i \in 1..Len(kept) |->
            [vm |-> kept[i].id, source |-> hostname, flavor |-> kept[i].flavor]]

\* Lines 199-206 without the status test of line 200.
HostCandidates_any_status(hostname, vms) ==
    LET Keep(vm) == vm.flavor \in DOMAIN flavor_cache
        kept == SelectSeq(vms, Keep)
    IN  [i \in 1..Len(kept) |->
            [vm |-> kept[i].id, source |-> hostname, flavor |-> kept[i].flavor]]

\* Lines 199-206: the candidates one host contributes, in listing order.
HostCandidates(hostname, vms) ==
    LET Keep(vm) == Upper(vm.status) = "ACTIVE" /\ vm.flavor \in DOMAIN flavor_cache
        kept == SelectSeq(vms, Keep)
    IN  [i \in 1..Len(kept) |->
            [vm |-> kept[i].id, source |-> hostname, flavor |-> kept[i].flavor]]

RECURSIVE CollectCandidates(_, _, _, _, _)
\* Lines 191-210: list_failed are the hosts whose server listing raised.
CollectCandidates(hosts, order, sim, srv, list_failed) ==
    IF hosts = << >> THEN << >>
    ELSE LET h == hosts[1]
             rest == CollectCandidates(Tail(hosts), order, sim, srv, list_failed)
         IN  IF RLt(TargetUtil(order, sim), calculate_node_utilization(sim[h]))
                /\ h \notin list_failed
             THEN HostCandidates(h, srv[h]) \o rest
             ELSE rest

Footprint(c) == flavor_cache[c.flavor].vcpus * flavor_cache[c.flavor].ram

RECURSIVE InsertDesc(_, _)
\* Insert c behind every entry whose footprint is at least its own.
InsertDesc(sorted, c) ==
    IF sorted = << >> THEN << c >>
    ELSE IF Footprint(sorted[1]) >= Footprint(c)
         THEN << sorted[1] >> \o InsertDesc(Tail(sorted), c)
         ELSE << c >> \o sorted

RECURSIVE SortDesc(_, _)
\* list.sort(key=footprint, reverse=True): stable, largest footprint first.
SortDesc(todo, sorted) ==
    IF todo = << >> THEN sorted
    ELSE SortDesc(Tail(todo), InsertDesc(sorted, todo[1]))

get_migration_candidates(order, sim, srv, list_failed) ==
    SortDesc(CollectCandidates(order, order, sim, srv, list_failed), << >>)

\* The VM record with the given id, from the cloud's servers.
VmOf(srv, vm_id) ==
    CHOOSE vm \in UNION {Range(srv[h]) : h \in DOMAIN srv} : vm.id = vm_id


(***************************************************************************)
(* Inputs: what the cloud may answer.                                      *)
(*                                                                         *)
(* A run draws the cloud's answers from one of two families.  "pair": at   *)
(* most two hypervisors with any load, VM count and condition, servers of  *)
(* every kind, traits, and failing ports.  "triple": three hypervisors, the *)
(* third possibly inactive, fewer loads, plain servers.                     *)
(***************************************************************************)
HostSeq == << "A", "B", "C" >>

\* (state, status) pairs of os-hypervisors/detail; only the first is active.
Conditions == { << "up", "enabled" >>, << "down", "enabled" >>,
                << "up", "disabled" >>, << "unknown", "unknown" >> }

\* (vcpus_used, memory_mb_used) of a host with vcpus = 1 and memory_mb = 2, that
\* is with room for 8 vCPUs and 3 units of memory: idle, the load of one small
\* server, the load of one big server, full.
Loads == { << 0, 0 >>, << 2, 1 >>, << 4, 2 >>, << 8, 3 >> }
TripleLoads == { << 0, 0 >>, << 2, 1 >>, << 4, 2 >>, << 8, 3 >> }

\* One record of os-hypervisors/detail after the setdefault calls, without its
\* hostname.
ActiveData(loads, counts) ==
    { [vcpus |-> HostVcpus, vcpus_used |-> l[1] * HostVcpus,
       memory_mb |-> 2 * HostVcpus, memory_mb_used |-> l[2] * HostVcpus,
       running_vms |-> r, state |-> "up", status |-> "enabled"] :
        l \in loads, r \in counts }

\* What an inactive host reports is never read; it reports a loaded host.
InactiveData ==
    { [vcpus |-> HostVcpus, vcpus_used |-> 6 * HostVcpus,
       memory_mb |-> 2 * HostVcpus, memory_mb_used |-> HostVcpus,
       running_vms |-> 1, state |-> c[1], status |-> c[2]] :
        c \in Conditions \ { << "up", "enabled" >> } }

\* The records of a run of the classifier alone: any VM count in any condition,
\* idle hosts (the classifier does not read the usage).
CountedData ==
    { [vcpus |-> HostVcpus, vcpus_used |-> 0, memory_mb |-> 2 * HostVcpus,
       memory_mb_used |-> 0, running_vms |-> r, state |-> c[1], status |-> c[2]] :
        r \in 0..MaxCountedVms, c \in Conditions }

\* The thresholds given to balance_nodes in runs of the classifier alone, in
\* tenths: 1.0, the default 1.2, and 1.5.
Thresholds == {10, DEFAULT_THRESHOLD, 15}

\* The hosts of the spec's scenarios S2, S4 and S5: 16 vCPUs and 65536 MB each.
\* load is (vcpus_used, memory_mb_used).
ScenarioHost(load, running) ==
    [vcpus |-> 16, vcpus_used |-> load[1], memory_mb |-> 65536,
     memory_mb_used |-> load[2], running_vms |-> running,
     state |-> "up", status |-> "enabled"]

\* S5 leaves the load of its two identical targets open.
S5TargetLoads == { << 0, 0 >>, << 8, 4096 >>, << 16, 8192 >>, << 24, 12288 >> }

\* S2: A loaded, B light.  S4: as S2 with 126 vCPUs used on B.  S5: A loaded
\* with three servers, B and C identical (Classify draws them equal).
ScenarioData(scn, i) ==
    IF i = 1 THEN { ScenarioHost(<< 64, 32768 >>, 8) }
    ELSE IF scn = "S2" THEN { ScenarioHost(<< 8, 4096 >>, 1) }
    ELSE IF scn = "S4" THEN { ScenarioHost(<< 126, 4096 >>, 1) }
    ELSE { ScenarioHost(l, 1) : l \in S5TargetLoads }

SpecScenarios == {"S2", "S4", "S5"}

\* The servers a host lists in a scenario of the spec: v1 of flavor
\* {vcpus: 4, ram: 8192} on A, and v2, v3 like it in S5; no other servers.
ScenarioListing(scn, hostname) ==
    LET vm == [status |-> "ACTIVE", flavor |-> "f4", hci_traits |-> {}]
    IN  IF hostname # HostSeq[1] THEN << >>
        ELSE IF scn = "S5" THEN << vm, vm, vm >> ELSE << vm >>

\* The records host number i of n may report.
HostData(scn, n, i) ==
    IF scn = "counted" THEN CountedData
    ELSE IF scn \in SpecScenarios THEN ScenarioData(scn, i)
    ELSE IF scn = "pair"
    THEN ActiveData(Loads, 0..MaxRunningVms) \cup InactiveData
    ELSE IF i < n
    THEN ActiveData(TripleLoads, {0, MaxRunningVms})
    ELSE ActiveData(TripleLoads, {0, MaxRunningVms}) \cup InactiveData

Sizes(scn) ==
    IF scn = "pair" THEN 0..2 ELSE IF scn = "counted" THEN 0..3
    ELSE IF scn \in {"S2", "S4"} THEN {2} ELSE {3}

Hypervisor(hostname, d) ==
    [hypervisor_hostname |-> hostname, vcpus |-> d.vcpus, vcpus_used |-> d.vcpus_used,
     memory_mb |-> d.memory_mb, memory_mb_used |-> d.memory_mb_used,
     running_vms |-> d.running_vms, state |-> d.state, status |-> d.status]

\* The kinds of server the cloud may list: status, flavor id, placement hints.
PlainKinds ==
    { [status |-> "ACTIVE", flavor |-> "f1", hci_traits |-> {}],
      [status |-> "ACTIVE", flavor |-> "f2", hci_traits |-> {}] }
TraitedKinds ==
    { [status |-> "ACTIVE", flavor |-> "f3", hci_traits |-> {}] }
VmKinds ==
    PlainKinds \cup TraitedKinds \cup
    { [status |-> "active", flavor |-> "f1", hci_traits |-> {"GPU"}],
      [status |-> "SHUTOFF", flavor |-> "f1", hci_traits |-> {}],
      [status |-> "ACTIVE", flavor |-> "f9", hci_traits |-> {}] }

VmRecord(id, kind) ==
    [id |-> id, status |-> kind.status, flavor |-> kind.flavor,
     hci_traits |-> kind.hci_traits]

VmIdSeq == << "v1", "v2", "v3", "v4", "v5", "v6" >>

RECURSIVE Listings(_, _)
\* The listings of hosts that list kinds[1], kinds[2], ...: ids are handed out
\* in host order.
Listings(kinds, used) ==
    IF kinds = << >> THEN << >>
    ELSE LET mine == kinds[1]
             here == [j \in 1..Len(mine) |-> VmRecord(VmIdSeq[used + j], mine[j])]
         IN  << here >> \o Listings(Tail(kinds), used + Len(mine))

\* The listings with the ids of the first two servers exchanged: the cloud lists
\* servers in an order of its own, not by id.
SwapIds(lists) ==
    LET Other(id) == IF id = VmIdSeq[1] THEN VmIdSeq[2]
                     ELSE IF id = VmIdSeq[2] THEN VmIdSeq[1] ELSE id
    IN  [i \in 1..Len(lists) |->
            [j \in 1..Len(lists[i]) |-> [lists[i][j] EXCEPT !.id = Other(@)]]]

\* The ways ids are given to the listed servers.  Ids are labels, so one way
\* stands for all, except where two servers of one flavor are listed: their
\* order in the candidate list is left to the sort.
IdChoices(lists) ==
    LET all == UNION {Range(lists[i]) : i \in 1..Len(lists)}
    IN  IF Cardinality(all) = 2 /\ Cardinality({vm.flavor : vm \in all}) = 1
        THEN {lists, SwapIds(lists)}
        ELSE {lists}

\* What one host may list.  A host whose servers are requested (a source) lists,
\* in a pair, no server, one of any kind or two plain ones, and in a triple at
\* most one plain server.  The servers of a host at or below the target
\* utilization are never requested: it lists nothing in a pair and at most a
\* small active server in a triple.
ListingKinds(scn, is_source) ==
    IF scn = "pair"
    THEN IF is_source
         THEN { << >> } \cup { << k >> : k \in VmKinds }
                        \cup { << j, k >> : j \in PlainKinds, k \in PlainKinds }
                        \cup { << k, k >> : k \in TraitedKinds }
         ELSE { << >> }
    ELSE IF is_source THEN { << >> } \cup { << k >> : k \in PlainKinds }
    ELSE { << >>, << [status |-> "ACTIVE", flavor |-> "f1", hci_traits |-> {}] >> }

RECURSIVE Products(_)
\* The sequences that take their i-th entry from the set doms[i].
Products(doms) ==
    IF doms = << >> THEN { << >> }
    ELSE { << x >> \o rest : x \in doms[1], rest \in Products(Tail(doms)) }

TrueRequiredTraits(vm) == get_required_traits(vm, TRUE)

\* Flavor ids are unique; a flavor's name is free text and may be the id of
\* another flavor, or the name of another flavor.
FlavorIds == {"a", "b", "c"}
FlavorNames == {"a", "b", "small"}

\* The vCPUs of the enumerated flavors, to tell them apart.
VcpusOf(id) == CASE id = "a" -> 1 [] id = "b" -> 2 [] OTHER -> 4

\* What conn.compute.flavors() may enumerate: any flavors with distinct ids, in
\* any order.
FlavorEnumerations ==
    UNION {{[i \in 1..Len(ids) |->
               [id |-> ids[i], name |-> names[i], vcpus |-> VcpusOf(ids[i]),
                ram |-> 1, extra_specs |-> {}]] :
            names \in [1..Len(ids) -> FlavorNames]} :
        ids \in {q \in UNION {[1..n -> FlavorIds] : n \in 0..Cardinality(FlavorIds)} :
                    \A i, j \in 1..Len(q) : i # j => q[i] # q[j]}}

(***************************************************************************)
(* State machine.                                                          *)
(***************************************************************************)
Init ==
    /\ scenario \in {"pair", "triple"} \cup SpecScenarios
    /\ pc = "idle"
    /\ outcome = "none"
    /\ dry_run \in BOOLEAN
    /\ threshold = DEFAULT_THRESHOLD
    /\ hypervisors = << >>
    /\ overutilized = << >>
    /\ underutilized = << >>
    /\ planner_made = FALSE
    /\ sim_order = << >>
    /\ simulated_states = << >>
    /\ provider_uuid_cache = {}
    /\ host_traits_cache = << >>
    /\ servers = << >>
    /\ host_traits = << >>
    /\ candidates = << >>
    /\ ci = 1
    /\ planned_migrations = << >>
    /\ ei = 1
    /\ migrations_attempted = 0
    /\ migrations_successful = 0
    /\ live_migrate_calls = << >>
    /\ sim0 = << >>
    /\ decisions = << >>
    /\ listing_failed = {}
    /\ twin = [pc |-> "idle"]
    /\ compute_flavors = FlavorList
    /\ manager_flavor_cache = flavor_cache

FlavorVars == << compute_flavors, manager_flavor_cache >>

PlannerVars == << planner_made, sim_order, simulated_states, provider_uuid_cache,
                  host_traits_cache, servers, host_traits, candidates, ci,
                  planned_migrations, sim0, decisions, listing_failed >>
ExecVars == << ei, migrations_attempted, migrations_successful, live_migrate_calls >>

\* A planner whose dicts are attributes of the class, shared by every instance.
MigrationPlanner_shared ==
    [simulated_states |-> simulated_states, provider_uuid_cache |-> provider_uuid_cache,
     host_traits_cache |-> host_traits_cache]

\* MigrationPlanner.__init__ (lines 46-52): the dicts of a new planner are empty.
MigrationPlanner ==
    [simulated_states |-> << >>, provider_uuid_cache |-> {}, host_traits_cache |-> << >>]

\* balance_nodes with the return of lines 327-329 left out.
balance_nodes_branch_no_balanced_return(hvs, groups) ==
    IF hvs = << >> THEN "no_nodes"
    ELSE IF groups.underutilized = << >> THEN "no_targets"
    ELSE "process"

\* The branch balance_nodes takes after the classification (lines 309-333).
balance_nodes_branch(hvs, groups) ==
    IF hvs = << >> THEN "no_nodes"
    ELSE IF groups.overutilized = << >> THEN "balanced"
    ELSE IF groups.underutilized = << >> THEN "no_targets"
    ELSE "process"

\* balance_nodes, lines 306-333: fetch, average, classify, and the three returns.
Classify ==
    /\ pc = "idle"
    /\ \E n \in Sizes(scenario) :
         \E data \in Products([i \in 1..n |-> HostData(scenario, n, i)]) :
            /\ scenario = "S5" => data[2] = data[3]
            /\ LET hvs == [i \in 1..n |-> Hypervisor(HostSeq[i], data[i])]
                   groups == identify_node_groups(hvs, calculate_average_vms(hvs),
                                                  threshold)
                   branch == balance_nodes_branch(hvs, groups)
               IN  /\ hypervisors' = hvs
                   /\ IF hvs = << >>
                      THEN UNCHANGED << overutilized, underutilized >>
                      ELSE /\ overutilized' = groups.overutilized
                           /\ underutilized' = groups.underutilized
                   /\ IF branch = "process"
                      THEN pc' = "classified" /\ outcome' = "none"
                      ELSE pc' = "done" /\ outcome' = branch
    /\ UNCHANGED << FlavorVars, scenario, dry_run, threshold, PlannerVars, ExecVars, twin >>

\* balance_nodes when fetch_hypervisor_details raises OpenStackError.
FetchFails ==
    /\ pc = "idle"
    /\ pc' = "raised"
    /\ outcome' = "error"
    /\ UNCHANGED << FlavorVars, scenario, dry_run, threshold, hypervisors, overutilized,
                    underutilized, PlannerVars, ExecVars, twin >>

IsSource(order, sim, h) ==
    RLt(TargetUtil(order, sim), calculate_node_utilization(sim[h]))

\* process_overutilized_nodes, lines 283-287, and plan_migrations up to its loop:
\* the planner is made, the simulation initialised, the candidates collected.
\* failed are the hosts whose server listing raises.  A host's traits are
\* requested only for a server of another host that requires some, so only then
\* are they drawn.
PlanStart ==
    /\ pc = "classified"
    /\ LET hvs == overutilized \o underutilized
           order == init_simulation_order(hvs)
           sim == init_simulation(hvs)
           sources == {h \in Range(order) : IsSource(order, sim, h)}
       IN  \E kinds \in Products([i \in 1..Len(order) |->
                                   IF scenario \in SpecScenarios
                                   THEN { ScenarioListing(scenario, order[i]) }
                                   ELSE ListingKinds(scenario, order[i] \in sources)]) :
           \E lists \in IdChoices(Listings(kinds, 0)) :
             /\ LET srv == [h \in Range(order) |->
                               lists[CHOOSE i \in 1..Len(order) : order[i] = h]]
                    traited == {h \in Range(order) : \E i \in 1..Len(srv[h]) :
                                   TrueRequiredTraits(srv[h][i]) # {}}
                    listed == {h \in sources : srv[h] # << >>}
                IN  \E truth \in [Range(order) -> SUBSET Traits],
                       failed \in SUBSET listed :
                      /\ \A h \in Range(order) :
                             truth[h] # {} => (traited \cap sources) \ {h} # {}
                      /\ scenario # "pair" => failed = {}
                      /\ listing_failed' = failed
                      /\ sim_order' = order
                      /\ simulated_states' = sim
                      /\ sim0' = sim
                      /\ servers' = srv
                      /\ host_traits' = truth
                      /\ candidates' = get_migration_candidates(order, sim, srv, failed)
                      /\ pc' = IF candidates' = << >> THEN "executing" ELSE "planning"
    /\ planner_made' = TRUE
    /\ provider_uuid_cache' = MigrationPlanner.provider_uuid_cache
    /\ host_traits_cache' = MigrationPlanner.host_traits_cache
    /\ ci' = 1
    /\ planned_migrations' = << >>
    /\ decisions' = << >>
    /\ ei' = 1
    /\ migrations_attempted' = 0
    /\ migrations_successful' = 0
    /\ UNCHANGED << FlavorVars, scenario, outcome, dry_run, threshold, hypervisors, overutilized,
                    underutilized, live_migrate_calls, twin >>

\* The trait cache storing the empty set of a failed lookup as well.
CacheAfter_failures_too(calls, pl, truth, traits_cache) ==
    [h \in DOMAIN traits_cache \cup calls |->
        IF h \in calls THEN (IF pl[h] = "ok" THEN truth[h] ELSE {})
        ELSE traits_cache[h]]

\* Merge of the trait cache with the placement answers of one get_best_target call.
CacheAfter(calls, pl, truth, traits_cache) ==
    LET stored == {h \in calls : pl[h] = "ok"}
    IN  [h \in DOMAIN traits_cache \cup stored |->
            IF h \in stored THEN truth[h] ELSE traits_cache[h]]

ProvidersAfter(calls, pl, prov_cache) ==
    prov_cache \cup {h \in calls : pl[h] \in {"ok", "traits_error"}}

\* The hosts whose traits one get_best_target call requests from placement: those
\* with room, for which the VM is found to require traits, and not yet cached.
TraitCalls(vm, roomy, vm_ok, traits_cache) ==
    {h \in roomy : /\ get_required_traits(vm, vm_ok[h]) # {}
                   /\ h \notin DOMAIN traits_cache}

\* The hosts with room that pass check_trait_compatibility (line 246).
CompatibleHosts(vm, roomy, vm_ok, calls, pl, truth, prov_cache, traits_cache) ==
    {h \in roomy : check_trait_compatibility(
                       vm, h, vm_ok[h], IF h \in calls THEN pl[h] ELSE "ok",
                       truth[h], prov_cache, traits_cache)}

\* The planned move put in front of the list instead of behind it.
append_move_in_front(planned, move) == << move >> \o planned

\* Line 309: planned_migrations.append((vm, source, best_target)).
append_move(planned, move) == Append(planned, move)

\* One iteration of the loop of plan_migrations (lines 303-320): get_best_target
\* with its trait checks, then register_migration and the append; after the last
\* candidate plan_migrations returns and the executor loop is entered.  A failed
\* GET of the server record changes nothing for a VM without required traits, so
\* such failures are drawn only for VMs that have some.
PlanStep ==
    /\ pc = "planning"
    /\ ci <= Len(candidates)
    /\ LET c == candidates[ci]
           vm == VmOf(servers, c.vm)
           flavor == flavor_cache[c.flavor]
           roomy == Range(RoomyHosts(sim_order, simulated_states, c.source, flavor))
       IN  \E vm_ok \in [roomy -> BOOLEAN] :
             /\ TrueRequiredTraits(vm) = {} => \A h \in roomy : vm_ok[h]
             /\ LET calls == TraitCalls(vm, roomy, vm_ok, host_traits_cache)
                IN  \E pl \in [calls -> PlacementOutcomes] :
                      /\ \A h \in calls : h \in provider_uuid_cache =>
                                             pl[h] \in {"ok", "traits_error"}
                      /\ LET compatible ==
                                 CompatibleHosts(vm, roomy, vm_ok, calls, pl, host_traits,
                                                 provider_uuid_cache, host_traits_cache)
                             best_target == get_best_target(sim_order, simulated_states,
                                                            c.source, flavor, compatible)
                             seen == [vm |-> c.vm, source |-> c.source, flavor |-> c.flavor,
                                      sim |-> simulated_states, target |-> best_target,
                                      required |-> IF best_target \in roomy
                                                   THEN get_required_traits(vm, vm_ok[best_target])
                                                   ELSE {},
                                      fetch_failed |-> \E h \in roomy : ~vm_ok[h],
                                      vm_ok |-> vm_ok, pl |-> pl,
                                      compatible |-> compatible]
                         IN  IF best_target = "ZeroDivisionError"
                             THEN /\ pc' = "raised"
                                  /\ outcome' = "error"
                                  /\ UNCHANGED << simulated_states, provider_uuid_cache,
                                                  host_traits_cache, ci, planned_migrations,
                                                  decisions >>
                             ELSE /\ provider_uuid_cache' =
                                         ProvidersAfter(calls, pl, provider_uuid_cache)
                                  /\ host_traits_cache' =
                                         CacheAfter(calls, pl, host_traits, host_traits_cache)
                                  /\ decisions' = Append(decisions, seen)
                                  /\ ci' = ci + 1
                                  /\ pc' = IF ci = Len(candidates) THEN "executing"
                                           ELSE "planning"
                                  /\ UNCHANGED outcome
                                  /\ IF best_target # "none"
                                     THEN /\ simulated_states' = register_migration(
                                                 simulated_states, c.vm, c.source,
                                                 best_target, flavor)
                                          /\ planned_migrations' = append_move(planned_migrations,
                                                 << c.vm, c.source, best_target >>)
                                     ELSE UNCHANGED << simulated_states, planned_migrations >>
    /\ UNCHANGED << FlavorVars, scenario, dry_run, threshold, hypervisors, overutilized,
                    underutilized, planner_made, sim_order, servers, host_traits,
                    candidates, sim0, listing_failed, ExecVars, twin >>

\* migrate_vm with the dry_run return after the call instead of before it.
migrate_vm_call_first(dry, cloud_ok) ==
    [dispatched |-> TRUE, result |-> IF dry THEN TRUE ELSE cloud_ok]

\* migrate_vm: under dry_run True is returned without a call; otherwise
\* live_migrate_server is called, and cloud_ok says whether it returned or raised.
migrate_vm(dry, cloud_ok) ==
    IF dry THEN [dispatched |-> FALSE, result |-> TRUE]
    ELSE [dispatched |-> TRUE, result |-> cloud_ok]

\* next(h for h in underutilized if h['hypervisor_hostname'] == target_host):
\* the index of the first match, or 0 where Python raises StopIteration.
FindTarget(under, target_host) ==
    IF \E i \in 1..Len(under) : under[i].hypervisor_hostname = target_host
    THEN CHOOSE i \in 1..Len(under) :
            /\ under[i].hypervisor_hostname = target_host
            /\ \A j \in 1..(i - 1) : under[j].hypervisor_hostname # target_host
    ELSE 0

\* One iteration of the executor loop (lines 290-299).  A StopIteration of the
\* target lookup leaves process_overutilized_nodes, and balance_nodes re-raises it.
ExecStep ==
    /\ pc = "executing"
    /\ ei <= Len(planned_migrations)
    /\ LET entry == planned_migrations[ei]
           found == FindTarget(underutilized, entry[3])
       IN  /\ migrations_attempted' = migrations_attempted + 1
           /\ IF found = 0
              THEN /\ pc' = "raised"
                   /\ outcome' = "error"
                   /\ UNCHANGED << ei, migrations_successful, live_migrate_calls >>
              ELSE \E cloud_ok \in BOOLEAN :
                     LET did == migrate_vm(dry_run, cloud_ok)
                     IN  /\ dry_run => cloud_ok
                         /\ live_migrate_calls' =
                                IF did.dispatched
                                THEN Append(live_migrate_calls,
                                            << entry[1], underutilized[found].hypervisor_hostname >>)
                                ELSE live_migrate_calls
                         /\ migrations_successful' =
                                IF did.result THEN migrations_successful + 1
                                ELSE migrations_successful
                         /\ ei' = ei + 1
                         /\ UNCHANGED << pc, outcome >>
    /\ UNCHANGED << FlavorVars, scenario, dry_run, threshold, hypervisors, overutilized,
                    underutilized, PlannerVars, twin >>

\* process_overutilized_nodes returns and balance_nodes logs the summary.
ExecDone ==
    /\ pc = "executing"
    /\ ei > Len(planned_migrations)
    /\ pc' = "done"
    /\ outcome' = "summary"
    /\ UNCHANGED << FlavorVars, scenario, dry_run, threshold, hypervisors, overutilized,
                    underutilized, PlannerVars, ExecVars, twin >>

\* A second manager, created with the other dry_run flag, reaches lines 283-287
\* with the same snapshot and the same port responses: its planner is made, its
\* simulation initialised, its candidates collected from the same server listings.
TwinPlanStart ==
    /\ pc = "executing"
    /\ twin.pc = "idle"
    /\ LET hvs == overutilized \o underutilized
           order == init_simulation_order(hvs)
           sim == init_simulation(hvs)
           found == get_migration_candidates(order, sim, servers, listing_failed)
       IN  twin' = [pc |-> IF found = << >> THEN "returned" ELSE "planning",
                    dry_run |-> ~dry_run,
                    sim_order |-> order,
                    simulated_states |-> sim,
                    provider_uuid_cache |-> MigrationPlanner.provider_uuid_cache,
                    host_traits_cache |-> MigrationPlanner.host_traits_cache,
                    candidates |-> found,
                    ci |-> 1,
                    planned_migrations |-> << >>]
    /\ UNCHANGED << FlavorVars, scenario, pc, outcome, dry_run, threshold, hypervisors, overutilized,
                    underutilized, PlannerVars, ExecVars >>

\* One iteration of the loop of plan_migrations in the second planner.  Its
\* requests are answered as the same requests of the first planner were: the
\* answers to the requests of iteration k are those recorded in decisions[k].
TwinPlanStep ==
    /\ twin.pc = "planning"
    /\ twin.ci <= Len(decisions)
    /\ LET c == twin.candidates[twin.ci]
           answers == decisions[twin.ci]
           vm == VmOf(servers, c.vm)
           flavor == flavor_cache[c.flavor]
           roomy == Range(RoomyHosts(twin.sim_order, twin.simulated_states, c.source, flavor))
           vm_ok == [h \in roomy |-> IF h \in DOMAIN answers.vm_ok
                                     THEN answers.vm_ok[h] ELSE TRUE]
           calls == TraitCalls(vm, roomy, vm_ok, twin.host_traits_cache)
           pl == [h \in calls |-> IF h \in DOMAIN answers.pl THEN answers.pl[h] ELSE "ok"]
           compatible == CompatibleHosts(vm, roomy, vm_ok, calls, pl, host_traits,
                                         twin.provider_uuid_cache, twin.host_traits_cache)
           best_target == get_best_target(twin.sim_order, twin.simulated_states,
                                          c.source, flavor, compatible)
       IN  /\ best_target # "ZeroDivisionError"
           /\ twin' = [twin EXCEPT
                  !.provider_uuid_cache = ProvidersAfter(calls, pl, @),
                  !.host_traits_cache = CacheAfter(calls, pl, host_traits, @),
                  !.ci = @ + 1,
                  !.pc = IF twin.ci = Len(twin.candidates) THEN "returned" ELSE "planning",
                  !.simulated_states =
                      IF best_target # "none"
                      THEN register_migration(@, c.vm, c.source, best_target, flavor)
                      ELSE @,
                  !.planned_migrations =
                      IF best_target # "none"
                      THEN Append(@, << c.vm, c.source, best_target >>)
                      ELSE @]
    /\ UNCHANGED << FlavorVars, scenario, pc, outcome, dry_run, threshold, hypervisors, overutilized,
                    underutilized, PlannerVars, ExecVars >>

Next ==
    \/ Classify
    \/ FetchFails
    \/ PlanStart
    \/ PlanStep
    \/ ExecStep
    \/ ExecDone

Spec == Init /\ [][Next]_vars

\* Two planning passes on one snapshot: the run up to the return of
\* plan_migrations, then the pass of the second planner.
NextTwin ==
    \/ Classify
    \/ FetchFails
    \/ PlanStart
    \/ PlanStep
    \/ TwinPlanStart
    \/ TwinPlanStep

SpecTwin == Init /\ [][NextTwin]_vars

\* The classifier alone: balance_nodes up to the classification, for any
\* threshold and any VM counts.
InitClassifier ==
    /\ scenario = "counted"
    /\ pc = "idle"
    /\ outcome = "none"
    /\ dry_run = FALSE
    /\ threshold \in Thresholds
    /\ hypervisors = << >>
    /\ overutilized = << >>
    /\ underutilized = << >>
    /\ planner_made = FALSE
    /\ sim_order = << >>
    /\ simulated_states = << >>
    /\ provider_uuid_cache = {}
    /\ host_traits_cache = << >>
    /\ servers = << >>
    /\ host_traits = << >>
    /\ candidates = << >>
    /\ ci = 1
    /\ planned_migrations = << >>
    /\ ei = 1
    /\ migrations_attempted = 0
    /\ migrations_successful = 0
    /\ live_migrate_calls = << >>
    /\ sim0 = << >>
    /\ decisions = << >>
    /\ listing_failed = {}
    /\ twin = [pc |-> "idle"]
    /\ compute_flavors = FlavorList
    /\ manager_flavor_cache = flavor_cache

NextClassifier ==
    \/ Classify
    \/ FetchFails

SpecClassifier == InitClassifier /\ [][NextClassifier]_vars

\* The construction of the manager alone (__init__, line 27): cache_flavors on
\* any enumeration of flavors.
InitFlavors ==
    /\ scenario = "flavors"
    /\ pc = "constructing"
    /\ outcome = "none"
    /\ dry_run = FALSE
    /\ threshold = DEFAULT_THRESHOLD
    /\ hypervisors = << >>
    /\ overutilized = << >>
    /\ underutilized = << >>
    /\ planner_made = FALSE
    /\ sim_order = << >>
    /\ simulated_states = << >>
    /\ provider_uuid_cache = {}
    /\ host_traits_cache = << >>
    /\ servers = << >>
    /\ host_traits = << >>
    /\ candidates = << >>
    /\ ci = 1
    /\ planned_migrations = << >>
    /\ ei = 1
    /\ migrations_attempted = 0
    /\ migrations_successful = 0
    /\ live_migrate_calls = << >>
    /\ sim0 = << >>
    /\ decisions = << >>
    /\ listing_failed = {}
    /\ twin = [pc |-> "idle"]
    /\ compute_flavors \in FlavorEnumerations
    /\ manager_flavor_cache = "unset"

\* self.flavor_cache = self.cache_flavors(), the enumeration having answered.
CacheFlavors ==
    /\ pc = "constructing"
    /\ manager_flavor_cache' = cache_flavors(compute_flavors)
    /\ pc' = "idle"
    /\ UNCHANGED << compute_flavors, scenario, outcome, dry_run, threshold, hypervisors,
                    overutilized, underutilized, PlannerVars, ExecVars, twin >>

\* conn.compute.flavors() raises: cache_flavors raises OpenStackError (lines
\* 40-41) and the manager is not constructed.
CacheFlavorsFails ==
    /\ pc = "constructing"
    /\ pc' = "raised"
    /\ outcome' = "error"
    /\ UNCHANGED << FlavorVars, scenario, dry_run, threshold, hypervisors,
                    overutilized, underutilized, PlannerVars, ExecVars, twin >>

NextFlavors ==
    \/ CacheFlavors
    \/ CacheFlavorsFails

SpecFlavors == InitFlavors /\ [][NextFlavors]_vars


(***************************************************************************)
(* Properties.                                                             *)
(***************************************************************************)
Moves == Range(planned_migrations)

\* The hypervisor snapshot of a host.
SnapshotOf(h) ==
    hypervisors[CHOOSE i \in 1..Len(hypervisors) : hypervisors[i].hypervisor_hostname = h]

WithinCapacity(state) ==
    /\ state.vcpus_used <= state.vcpus_total * CPU_ALLOCATION_RATIO
    /\ state.memory_mb_used * RAM_ALLOCATION_RATIO_DEN
           <= state.memory_mb_total * RAM_ALLOCATION_RATIO_NUM

\* The planning pass is over: plan_migrations has returned.
PlanReturned == planner_made /\ pc \in {"executing", "done"}

\* The executor loop is over, by its return or by an exception.
ExecutorStopped ==
    planner_made /\ ci > Len(candidates) /\ pc \in {"done", "raised"}

Spread(order, sim) ==
    LET m == calculate_cluster_metrics(order, sim) IN RSub(m.max, m.min)

\* C1: no self-migration -- every move of the plan has a source different from
\* its target.
C1_NoSelfMigration == \A m \in Moves : m[2] # m[3]

\* A plan of two moves from the same host: the second was decided when the source
\* had already given one server away.
C1_Witness ==
    /\ Len(planned_migrations) = 2
    /\ planned_migrations[1][2] = planned_migrations[2][2]

\* C2: capacity safety -- if every host starts within its overcommitted capacity,
\* then after every commit every host is within it, and every host that received
\* a server has available vCPUs and memory of at least 0.
C2_CapacitySafety ==
    (planner_made /\ \A h \in DOMAIN sim0 : WithinCapacity(sim0[h]))
    => \A h \in DOMAIN simulated_states :
          /\ WithinCapacity(simulated_states[h])
          /\ simulated_states[h].planned_migrations_in # {}
                => /\ available_vcpus(simulated_states[h]).n >= 0
                   /\ available_memory(simulated_states[h]).n >= 0

\* A commit filled its target to the last unit of memory.
C2_Witness ==
    \E h \in DOMAIN simulated_states :
        /\ simulated_states[h].planned_migrations_in # {}
        /\ available_memory(simulated_states[h]).n = 0

\* C3: trait respect -- the target of every move has all the traits the moved VM
\* requires (placement hints of its record and required traits of its flavor).
C3_TraitRespect ==
    \A m \in Moves : TrueRequiredTraits(VmOf(servers, m[1])) \subseteq host_traits[m[3]]

\* A server that requires GPU was moved to a host without it: the GET of its
\* record failed, get_required_traits answered the empty set, and every host
\* with room passed the trait check.
C3_Failing ==
    \E i \in 1..Len(decisions) :
        LET d == decisions[i]
        IN  /\ d.fetch_failed
            /\ d.target \in DOMAIN host_traits
            /\ d.required = {}
            /\ "GPU" \in TrueRequiredTraits(VmOf(servers, d.vm))
            /\ "GPU" \notin host_traits[d.target]
            /\ << d.vm, d.source, d.target >> \in Moves

\* C4: dry-run isolation -- under dry_run no live-migrate call is dispatched.
C4_DryRunIsolation == dry_run => live_migrate_calls = << >>

\* A dry run walked a plan of at least one move to its end.
C4_Witness ==
    /\ dry_run
    /\ pc = "done"
    /\ outcome = "summary"
    /\ migrations_attempted >= 1

\* C5: the executor walks the whole plan -- when it stops, every plan entry went
\* through migrate_vm, it stopped by returning, and the attempted count is the
\* length of the plan.
C5_WalksWholePlan ==
    ExecutorStopped =>
        /\ pc = "done"
        /\ ei = Len(planned_migrations) + 1
        /\ migrations_attempted = Len(planned_migrations)

\* The executor left its loop by StopIteration at the first of two plan entries:
\* the target the planner chose is a host the classifier put in the overutilized
\* list, and the second entry was never attempted.
C5_Failing ==
    /\ ExecutorStopped
    /\ pc = "raised"
    /\ Len(planned_migrations) = 2
    /\ ei = 1
    /\ FindTarget(underutilized, planned_migrations[ei][3]) = 0
    /\ FindTarget(overutilized, planned_migrations[ei][3]) # 0

\* C6: active-only filter -- only hosts whose snapshot is up and enabled enter the
\* simulated state, and so are the source and the target of every move.
C6_ActiveOnly ==
    /\ \A h \in DOMAIN simulated_states : IsActive(SnapshotOf(h))
    /\ \A m \in Moves : IsActive(SnapshotOf(m[2])) /\ IsActive(SnapshotOf(m[3]))

\* A move was planned while the cloud had an inactive hypervisor.
C6_Witness ==
    /\ planned_migrations # << >>
    /\ \E i \in 1..Len(hypervisors) : ~IsActive(hypervisors[i])

\* C7: monotone balance -- when the plan has at least one move, the spread of the
\* node utilizations after the plan is at most the spread before it.
C7_MonotoneBalance ==
    (PlanReturned /\ planned_migrations # << >>)
    => RLe(Spread(sim_order, simulated_states), Spread(sim_order, sim0))

\* Host A (2 vCPUs and 1 MB used, 1 VM) and host B (4 and 2 used, 2 VMs), each of
\* 1 vCPU and 2 MB; B lists one server of flavor f2.  The plan moves it to A: the
\* utilizations go from (1/3, 2/3) to (1, 0).
C7_Failing ==
    /\ PlanReturned
    /\ Len(hypervisors) = 2
    /\ \A i \in 1..2 : IsActive(hypervisors[i])
    /\ hypervisors[1].vcpus_used = 2 /\ hypervisors[1].memory_mb_used = 1
    /\ hypervisors[1].running_vms = 1
    /\ hypervisors[2].vcpus_used = 4 /\ hypervisors[2].memory_mb_used = 2
    /\ hypervisors[2].running_vms = 2
    /\ planned_migrations = << << "v1", "B", "A" >> >>
    /\ Spread(sim_order, sim0) = Rat(1, 3)
    /\ Spread(sim_order, simulated_states) = Rat(1, 1)

C9_DryRunSummary ==
    (dry_run /\ ExecutorStopped) =>
        /\ outcome = "summary"
        /\ migrations_attempted = Len(planned_migrations)
        /\ migrations_successful = Len(planned_migrations)

\* A dry run ended by StopIteration in the executor.  Host A has two VMs on 2
\* vCPUs, host B one VM on 8: the classifier calls A overutilized, the planner
\* moves B's server of flavor f2 to A, and A is not in the executor's list of targets.
C9_Failing ==
    /\ dry_run
    /\ ExecutorStopped
    /\ outcome = "error"
    /\ hypervisors[1].running_vms = 2 /\ hypervisors[1].vcpus_used = 2
    /\ hypervisors[2].running_vms = 1 /\ hypervisors[2].vcpus_used = 8
    /\ planned_migrations = << << "v1", "B", "A" >> >>
    /\ servers["B"][1].flavor = "f2"
    /\ migrations_attempted = 1
    /\ migrations_successful = 0

\* The hypervisors were fetched (fetch_hypervisor_details did not raise).
Fetched == pc # "idle" /\ ~(pc = "raised" /\ ~planner_made /\ hypervisors = << >>)

\* C10: orchestrator early exits -- with an empty hypervisor list, no overutilized
\* node or no underutilized node, balance_nodes returns without making a planner
\* or dispatching a live-migrate; the planner runs only when both groups are
\* non-empty, and then it does run.
C10_EarlyExits ==
    Fetched =>
        LET early == \/ hypervisors = << >>
                     \/ overutilized = << >>
                     \/ underutilized = << >>
        IN  /\ early => /\ pc = "done"
                        /\ outcome \in {"no_nodes", "balanced", "no_targets"}
                        /\ ~planner_made
                        /\ live_migrate_calls = << >>
            /\ planner_made => ~early
            /\ (~early /\ pc = "done") => planner_made /\ outcome = "summary"

\* Two hosts with the same positive number of VMs: the cluster is balanced.
C10_Witness ==
    /\ Len(hypervisors) = 2
    /\ \A i \in 1..2 : IsActive(hypervisors[i]) /\ hypervisors[i].running_vms = MaxRunningVms
    /\ outcome = "balanced"
    /\ pc = "done"

\* The indices of the up and enabled hypervisors of the snapshot.
ActiveIndices ==
    {i \in 1..Len(hypervisors) :
        hypervisors[i].state = "up" /\ hypervisors[i].status = "enabled"}

RECURSIVE TotalRunning(_)
TotalRunning(I) ==
    IF I = {} THEN 0
    ELSE LET i == CHOOSE x \in I : TRUE
         IN  hypervisors[i].running_vms + TotalRunning(I \ {i})

\* running_vms > avg_vms * T in whole numbers: avg_vms is the total over the
\* number of active hosts and T is threshold / 10.
AboveThreshold(i) ==
    hypervisors[i].running_vms * Cardinality(ActiveIndices) * THRESHOLD_DEN
        > TotalRunning(ActiveIndices) * threshold

\* The entries of a list of hypervisors are those of the snapshot with index in I,
\* in snapshot order and once each.
IsSublist(list, I) ==
    /\ Len(list) = Cardinality(I)
    /\ Range(list) = {hypervisors[i] : i \in I}

\* C11: node classification -- after the classification the overutilized group
\* holds exactly the active hosts with running_vms > avg_vms * T, the
\* underutilized group exactly the other active hosts (the border case included),
\* and no inactive host is in either.
C11_Classification ==
    (pc \in {"classified", "done"} /\ hypervisors # << >>) =>
        /\ IsSublist(overutilized, {i \in ActiveIndices : AboveThreshold(i)})
        /\ IsSublist(underutilized, {i \in ActiveIndices : ~AboveThreshold(i)})

\* A classification with a host over the threshold and a host with VMs exactly
\* on the border running_vms = avg_vms * T.
C11_Witness ==
    /\ pc = "classified"
    /\ overutilized # << >>
    /\ \E i \in ActiveIndices :
          /\ hypervisors[i].running_vms > 0
          /\ hypervisors[i].running_vms * Cardinality(ActiveIndices) * THRESHOLD_DEN
                 = TotalRunning(ActiveIndices) * threshold
          /\ hypervisors[i] \in Range(underutilized)

\* The simulated state right after iteration i of the planning loop.
SimAfter(i) ==
    IF i < Len(decisions) THEN decisions[i + 1].sim ELSE simulated_states

\* The iterations of the planning loop that chose a target.
Commits == {i \in 1..Len(decisions) : decisions[i].target \in DOMAIN decisions[i].sim}

NonNegative(state) ==
    /\ state.vcpus_used >= 0
    /\ state.memory_mb_used >= 0
    /\ state.running_vms >= 0

\* C12: non-negativity -- in every state of a planning pass every simulated host
\* has vcpus_used, memory_mb_used and running_vms of at least 0.
C12_NonNegativity ==
    \A h \in DOMAIN simulated_states : NonNegative(simulated_states[h])

\* Host B reports 2 vCPUs and 1 MB used by 1 VM and lists a server of flavor f2
\* (4 vCPUs, 2 MB); the idle host A takes it, and B is left with -2 vCPUs and
\* -1 MB used.
C12_Failing ==
    /\ PlanReturned
    /\ planned_migrations = << << "v1", "B", "A" >> >>
    /\ sim0["B"].vcpus_used = 2 /\ sim0["B"].memory_mb_used = 1
    /\ sim0["B"].running_vms = 1
    /\ flavor_cache[VmOf(servers, "v1").flavor].vcpus = 4
    /\ simulated_states["B"].vcpus_used = 0 - 2
    /\ simulated_states["B"].memory_mb_used = 0 - 1

\* Registering the move of decision d would leave its source with a negative
\* amount or its target beyond its overcommitted capacity.
WouldBreak(d) ==
    LET f == flavor_cache[d.flavor]
        src == d.sim[d.source]
        dst == d.sim[d.target]
    IN  \/ src.vcpus_used - f.vcpus < 0
        \/ src.memory_mb_used - f.ram < 0
        \/ src.running_vms - 1 < 0
        \/ dst.vcpus_used + f.vcpus > dst.vcpus_total * CPU_ALLOCATION_RATIO
        \/ (dst.memory_mb_used + f.ram) * RAM_ALLOCATION_RATIO_DEN
               > dst.memory_mb_total * RAM_ALLOCATION_RATIO_NUM

\* C13: commit rejection -- a move whose registration would make an amount of
\* its source negative or overfill its target is rejected: the simulated state
\* stays as it was, the move is not in the plan, and the loop goes on.
C13_CommitRejection ==
    \A i \in Commits :
        WouldBreak(decisions[i]) =>
            /\ SimAfter(i) = decisions[i].sim
            /\ << decisions[i].vm, decisions[i].source, decisions[i].target >> \notin Moves

\* Host B reports no running VM but 8 vCPUs and 3 MB used, and lists a server
\* of flavor f1; the move to the idle host A is registered and planned, and B
\* is left with running_vms = -1.
C13_Failing ==
    /\ PlanReturned
    /\ planned_migrations = << << "v1", "B", "A" >> >>
    /\ Commits = {1}
    /\ WouldBreak(decisions[1])
    /\ sim0["B"].running_vms = 0 /\ sim0["B"].vcpus_used = 8
    /\ decisions[1].flavor = "f1"
    /\ simulated_states["B"].running_vms = 0 - 1
    /\ simulated_states["A"].planned_migrations_in = {"v1"}

RECURSIVE ClusterSum(_, _, _)
\* The sum of one amount over the hosts H of a simulated state.
ClusterSum(sim, H, amount) ==
    IF H = {} THEN 0
    ELSE LET h == CHOOSE x \in H : TRUE
         IN  sim[h][amount] + ClusterSum(sim, H \ {h}, amount)

\* The commit of iteration i changed its source and its target as the spec says
\* and nothing else.
CommitEffect(i) ==
    LET d == decisions[i]
        f == flavor_cache[d.flavor]
        before == d.sim
        after == SimAfter(i)
    IN  /\ DOMAIN after = DOMAIN before
        /\ after[d.source].vcpus_used = before[d.source].vcpus_used - f.vcpus
        /\ after[d.source].memory_mb_used = before[d.source].memory_mb_used - f.ram
        /\ after[d.source].running_vms = before[d.source].running_vms - 1
        /\ after[d.source].planned_migrations_out =
               before[d.source].planned_migrations_out \cup {d.vm}
        /\ after[d.source].planned_migrations_in = before[d.source].planned_migrations_in
        /\ after[d.target].vcpus_used = before[d.target].vcpus_used + f.vcpus
        /\ after[d.target].memory_mb_used = before[d.target].memory_mb_used + f.ram
        /\ after[d.target].running_vms = before[d.target].running_vms + 1
        /\ after[d.target].planned_migrations_in =
               before[d.target].planned_migrations_in \cup {d.vm}
        /\ after[d.target].planned_migrations_out = before[d.target].planned_migrations_out
        /\ \A h \in DOMAIN before :
              /\ after[h].vcpus_total = before[h].vcpus_total
              /\ after[h].memory_mb_total = before[h].memory_mb_total
              /\ h \notin {d.source, d.target} => after[h] = before[h]

\* C14: commit effect and frame -- every commit takes the flavor and one VM from
\* the source, gives them to the target, records the VM id in the source's
\* outgoing and the target's incoming set, and changes nothing else; so every
\* planned move is recorded in both sets and the cluster-wide sums of
\* vcpus_used, memory_mb_used and running_vms stay what they were.
C14_CommitEffect ==
    /\ \A i \in Commits : CommitEffect(i)
    /\ \A i \in 1..Len(decisions) : i \notin Commits => SimAfter(i) = decisions[i].sim
    /\ \A mv \in Moves :
          /\ mv[1] \in simulated_states[mv[2]].planned_migrations_out
          /\ mv[1] \in simulated_states[mv[3]].planned_migrations_in
    /\ \A amount \in {"vcpus_used", "memory_mb_used", "running_vms"} :
          ClusterSum(simulated_states, DOMAIN simulated_states, amount)
              = ClusterSum(sim0, DOMAIN sim0, amount)

\* A returned plan of two commits among three hosts: each commit had a third
\* host to leave alone.
C14_Witness ==
    /\ PlanReturned
    /\ Cardinality(DOMAIN simulated_states) = 3
    /\ Cardinality(Commits) = 2
    /\ Len(planned_migrations) = 2

\* The outgoing and incoming sets of a simulated state.
Outgoing(h) == simulated_states[h].planned_migrations_out
Incoming(h) == simulated_states[h].planned_migrations_in

\* C15: pending-move sets stay disjoint -- no VM id is in the outgoing sets of two
\* hosts, in the incoming sets of two hosts, or in both sets of one host, and
\* no VM is in more than one planned move.
C15_DisjointSets ==
    /\ \A g, h \in DOMAIN simulated_states :
          /\ g # h => Outgoing(g) \cap Outgoing(h) = {}
          /\ g # h => Incoming(g) \cap Incoming(h) = {}
          /\ Outgoing(h) \cap Incoming(h) = {}
    /\ \A i, j \in 1..Len(planned_migrations) :
          i # j => planned_migrations[i][1] # planned_migrations[j][1]

\* Two servers were moved, and the host that received the first is, after it,
\* above the target utilization: a source by load, yet its new server is not
\* among the candidates.
C15_Witness ==
    /\ Len(planned_migrations) = 2
    /\ \E h \in DOMAIN simulated_states :
          /\ Incoming(h) # {}
          /\ IsSource(sim_order, simulated_states, h)

RECURSIVE Shifted(_, _, _)
\* What the commits among the iterations 1..n added to (and took from) the
\* given amount of host h: the flavor's vcpus, its ram, or one VM.
Shifted(n, h, amount) ==
    IF n = 0 THEN 0
    ELSE LET d == decisions[n]
             f == flavor_cache[d.flavor]
             size == IF amount = "vcpus_used" THEN f.vcpus
                     ELSE IF amount = "memory_mb_used" THEN f.ram ELSE 1
             here == IF n \notin Commits THEN 0
                     ELSE IF d.target = h THEN size
                     ELSE IF d.source = h THEN 0 - size ELSE 0
         IN  here + Shifted(n - 1, h, amount)

\* The state iteration i decided on holds every earlier commit of the pass.
HoldsEarlierCommits(i) ==
    \A h \in DOMAIN sim0 :
        \A amount \in {"vcpus_used", "memory_mb_used", "running_vms"} :
            decisions[i].sim[h][amount] = sim0[h][amount] + Shifted(i - 1, h, amount)

\* The mean node utilization of a simulated state, over the hosts in dict order.
MeanUtilization(sim) ==
    LET total == SeqSum([k \in 1..Len(sim_order) |->
                            RMax(cpu_ratio(sim[sim_order[k]]),
                                 memory_ratio(sim[sim_order[k]]))])
    IN  Rat(total.n, total.d * Len(sim_order))

\* Host h is at or below 0.9 x the mean utilization of state sim and has the
\* vCPUs and the memory the flavor asks for.
EligibleIn(sim, h, f) ==
    /\ RLe(RMax(cpu_ratio(sim[h]), memory_ratio(sim[h])),
           RMul(Rat(TARGET_FRACTION_NUM, TARGET_FRACTION_DEN), MeanUtilization(sim)))
    /\ sim[h].vcpus_total * CPU_ALLOCATION_RATIO - sim[h].vcpus_used >= f.vcpus
    /\ sim[h].memory_mb_total * RAM_ALLOCATION_RATIO_NUM
           - sim[h].memory_mb_used * RAM_ALLOCATION_RATIO_DEN
         >= f.ram * RAM_ALLOCATION_RATIO_DEN

\* C16: target eligibility observes earlier commits -- the state a move was
\* decided on is the initial simulation with every earlier commit of the pass
\* applied, and in that state the chosen target is at or below 0.9 x the mean
\* node utilization and has the vCPUs and the memory of the VM's flavor.
C16_EligibilityObservesCommits ==
    \A i \in Commits :
        /\ HoldsEarlierCommits(i)
        /\ EligibleIn(decisions[i].sim, decisions[i].target,
                      flavor_cache[decisions[i].flavor])

\* A move was emitted after an earlier commit had made a host, eligible for that
\* flavor on the initial state, ineligible.
C16_Witness ==
    \E i \in Commits :
        /\ \E j \in Commits : j < i
        /\ \E h \in DOMAIN sim0 :
              /\ h # decisions[i].source
              /\ EligibleIn(sim0, h, flavor_cache[decisions[i].flavor])
              /\ ~EligibleIn(decisions[i].sim, h, flavor_cache[decisions[i].flavor])

\* |post_move_utilization - target_util| of host h for flavor f on state sim.
FitScore(sim, h, f) ==
    LET post == RMax(Rat(sim[h].vcpus_used + f.vcpus,
                         sim[h].vcpus_total * CPU_ALLOCATION_RATIO),
                     Rat((sim[h].memory_mb_used + f.ram) * RAM_ALLOCATION_RATIO_DEN,
                         sim[h].memory_mb_total * RAM_ALLOCATION_RATIO_NUM))
        target_util == RMul(Rat(TARGET_FRACTION_NUM, TARGET_FRACTION_DEN),
                            MeanUtilization(sim))
    IN  RAbs(RSub(post, target_util))

\* The eligible targets of iteration i: not the source, at or below the target
\* utilization with room for the flavor, and passed by the trait check.
EligibleTargets(i) ==
    {h \in DOMAIN decisions[i].sim :
        /\ h # decisions[i].source
        /\ EligibleIn(decisions[i].sim, h, flavor_cache[decisions[i].flavor])
        /\ h \in decisions[i].compatible}

\* C17: best-fit target -- the target of every emitted move is an eligible
\* host, and no eligible host has a strictly smaller
\* |post_move_utilization - target_util| in the state the move was decided on.
C17_BestFit ==
    \A i \in Commits :
        LET d == decisions[i]
            f == flavor_cache[d.flavor]
        IN  /\ d.target \in EligibleTargets(i)
            /\ \A h \in EligibleTargets(i) :
                  RLe(FitScore(d.sim, d.target, f), FitScore(d.sim, h, f))

\* A move whose target had a strictly better score than another eligible host
\* that comes before it in the order of the simulation dict.
C17_Witness ==
    \E i \in Commits :
        LET d == decisions[i]
            f == flavor_cache[d.flavor]
        IN  \E h \in EligibleTargets(i) :
              /\ RLt(FitScore(d.sim, d.target, f), FitScore(d.sim, h, f))
              /\ \E a, b \in 1..Len(sim_order) :
                    a < b /\ sim_order[a] = h /\ sim_order[b] = d.target

\* The place of a hostname in lexicographic order: HostSeq is sorted.
HostRank(h) == CHOOSE k \in 1..Len(HostSeq) : HostSeq[k] = h

\* The current node utilization of host h in state sim.
CurrentUtilization(sim, h) == RMax(cpu_ratio(sim[h]), memory_ratio(sim[h]))

\* Host g comes before host h by (current utilization, hostname).
TieBreakBefore(sim, g, h) ==
    \/ RLt(CurrentUtilization(sim, g), CurrentUtilization(sim, h))
    \/ /\ CurrentUtilization(sim, g) = CurrentUtilization(sim, h)
       /\ HostRank(g) < HostRank(h)

\* C18: target tie-break -- among the eligible targets that share the minimal
\* score, the chosen one has the smaller current node utilization and, where
\* that is equal too, the lexicographically smallest hostname, whatever the
\* order in which the hypervisors were listed.
C18_TargetTieBreak ==
    \A i \in Commits :
        LET d == decisions[i]
            f == flavor_cache[d.flavor]
        IN  \A h \in EligibleTargets(i) \ {d.target} :
              FitScore(d.sim, h, f) = FitScore(d.sim, d.target, f)
                  => TieBreakBefore(d.sim, d.target, h)

\* The first move of a returned plan went to a host although another eligible
\* host with the same score and the same utilization has the smaller hostname:
\* the chosen one stands earlier in the simulation dict.
C18_Failing ==
    /\ PlanReturned
    /\ 1 \in Commits
    /\ LET d == decisions[1]
           f == flavor_cache[d.flavor]
       IN  \E h \in EligibleTargets(1) \ {d.target} :
             /\ FitScore(d.sim, h, f) = FitScore(d.sim, d.target, f)
             /\ CurrentUtilization(d.sim, h) = CurrentUtilization(d.sim, d.target)
             /\ HostRank(h) < HostRank(d.target)
             /\ \E a, b \in 1..Len(sim_order) :
                   a < b /\ sim_order[a] = d.target /\ sim_order[b] = h

\* The place of a VM id in lexicographic order: VmIdSeq is sorted.
IdRank(id) == CHOOSE k \in 1..Len(VmIdSeq) : VmIdSeq[k] = id

\* vcpus x ram of the flavor of a candidate.
ResourceFootprint(c) == flavor_cache[c.flavor].vcpus * flavor_cache[c.flavor].ram

\* C19: candidate order -- the candidate list is in descending order of
\* vcpus x ram, and candidates of equal footprint are in ascending order of
\* their VM ids, whatever the order in which hosts and servers were listed.
C19_CandidateOrder ==
    \A a, b \in 1..Len(candidates) :
        a < b =>
            \/ ResourceFootprint(candidates[a]) > ResourceFootprint(candidates[b])
            \/ /\ ResourceFootprint(candidates[a]) = ResourceFootprint(candidates[b])
               /\ IdRank(candidates[a].vm) < IdRank(candidates[b].vm)

\* Two candidates of equal footprint stand in the order of the listing, the
\* larger id first, and the plan moved the server with the larger id first.
C19_Failing ==
    /\ PlanReturned
    /\ Len(candidates) = 2
    /\ ResourceFootprint(candidates[1]) = ResourceFootprint(candidates[2])
    /\ IdRank(candidates[1].vm) > IdRank(candidates[2].vm)
    /\ planned_migrations # << >>
    /\ planned_migrations[1][1] = candidates[1].vm

\* The hosts strictly above 0.9 x the mean utilization when planning starts.
SourcesAtStart ==
    {h \in DOMAIN sim0 :
        RLt(RMul(Rat(TARGET_FRACTION_NUM, TARGET_FRACTION_DEN), MeanUtilization(sim0)),
            CurrentUtilization(sim0, h))}

\* The servers the cloud listed for the hosts above the target: a listing that
\* raised has listed nothing.
ListedOnSources ==
    UNION {{<< h, servers[h][k] >> : k \in 1..Len(servers[h])} :
              h \in SourcesAtStart \ listing_failed}

\* The candidates the spec asks for: active servers (status.upper() is ACTIVE)
\* of source hosts whose flavor is a key of the flavor cache.
ExpectedCandidates ==
    {[vm |-> p[2].id, source |-> p[1], flavor |-> p[2].flavor] :
        p \in {q \in ListedOnSources :
                  /\ Upper(q[2].status) = "ACTIVE"
                  /\ q[2].flavor \in DOMAIN flavor_cache}}

\* C20: candidate set -- the candidate list holds, once each, exactly the
\* servers listed on a host strictly above 0.9 x the mean utilization at
\* planning start that are active and whose flavor is in the flavor cache; no
\* other server is ever in the plan.
C20_CandidateSet ==
    planner_made =>
        /\ Range(candidates) = ExpectedCandidates
        /\ Len(candidates) = Cardinality(ExpectedCandidates)
        /\ \A mv \in Moves :
              \E c \in ExpectedCandidates : c.vm = mv[1] /\ c.source = mv[2]

\* A plan was returned with a move in it while an active server with a cached
\* flavor, listed on a host at or below the target, stayed out of the candidates.
C20_Witness ==
    /\ PlanReturned
    /\ planned_migrations # << >>
    /\ \E h \in DOMAIN servers \ SourcesAtStart :
          \E k \in 1..Len(servers[h]) :
            /\ Upper(servers[h][k].status) = "ACTIVE"
            /\ servers[h][k].flavor \in DOMAIN flavor_cache
            /\ \A a \in 1..Len(candidates) : candidates[a].vm # servers[h][k].id

\* The hostnames of the classifier's underutilized group.
UnderutilizedNames ==
    {underutilized[k].hypervisor_hostname : k \in 1..Len(underutilized)}

\* C28: planner targets are executor-resolvable -- the target of every move the
\* planner emitted is a host of the classifier's underutilized group, so the
\* executor's search for it among the underutilized nodes finds an entry.
C28_TargetsResolvable ==
    \A mv \in Moves : mv[3] \in UnderutilizedNames

\* The planner emitted a move to a host that is overutilized by VM count and
\* has the lowest resource utilization of the cluster, and the executor's
\* search for it raised StopIteration.
C28_Failing ==
    /\ pc = "raised"
    /\ planner_made
    /\ Len(hypervisors) = 2
    /\ hypervisors[1].running_vms = 2 /\ hypervisors[1].vcpus_used = 2
    /\ hypervisors[2].running_vms = 1 /\ hypervisors[2].vcpus_used = 8
    /\ planned_migrations # << >>
    /\ ei <= Len(planned_migrations)
    /\ planned_migrations[ei][3] \notin UnderutilizedNames
    /\ FindTarget(overutilized, planned_migrations[ei][3]) # 0
    /\ \A h \in DOMAIN sim0 :
          RLe(CurrentUtilization(sim0, planned_migrations[ei][3]),
              CurrentUtilization(sim0, h))

\* C24: per-VM port failure means skip -- a candidate for which a fetch of the
\* server record failed during target scoring gets no move, and planning goes
\* on with the candidates after it.
C24_FetchFailureSkips ==
    /\ \A i \in 1..Len(decisions) :
          decisions[i].fetch_failed => decisions[i].target \notin DOMAIN decisions[i].sim
    /\ (PlanReturned /\ candidates # << >>) => Len(decisions) = Len(candidates)

\* The fetch of the record of a server that requires a trait failed for the
\* host that was then chosen, which does not have the trait, and the move was
\* emitted.
C24_Failing ==
    /\ PlanReturned
    /\ \E i \in Commits :
          /\ decisions[i].fetch_failed
          /\ ~decisions[i].vm_ok[decisions[i].target]
          /\ TrueRequiredTraits(VmOf(servers, decisions[i].vm)) # {}
          /\ << decisions[i].vm, decisions[i].source, decisions[i].target >> \in Moves

RECURSIVE CommittedMoves(_)
\* The moves of the iterations 1..n that found a target, in iteration order.
CommittedMoves(n) ==
    IF n = 0 THEN << >>
    ELSE IF n \in Commits
         THEN Append(CommittedMoves(n - 1),
                     << decisions[n].vm, decisions[n].source, decisions[n].target >>)
         ELSE CommittedMoves(n - 1)

\* Iteration i was about the i-th candidate, and the plan holds the committed
\* moves of the iterations so far, in their order.
SinglePassSoFar ==
    /\ Len(decisions) <= Len(candidates)
    /\ planner_made /\ pc # "raised" => ci = Len(decisions) + 1
    /\ \A i \in 1..Len(decisions) :
          /\ decisions[i].vm = candidates[i].vm
          /\ decisions[i].source = candidates[i].source
          /\ decisions[i].flavor = candidates[i].flavor
    /\ planned_migrations = CommittedMoves(Len(decisions))
    /\ PlanReturned => Len(decisions) = Len(candidates)

\* C26: single pass in order -- every candidate is considered once, in the order
\* of the sorted candidate list, the loop never goes back, the plan is the
\* subsequence of the candidates whose commit succeeded in commit order, and
\* the loop terminates: while it runs it has a candidate left, and every
\* iteration moves on by one candidate or raises, so there are at most
\* Len(candidates) iterations.
C26_SinglePass ==
    /\ []SinglePassSoFar
    /\ [](pc = "planning" => ci <= Len(candidates))
    /\ [][pc = "planning" =>
             \/ ci' = ci + 1 /\ Len(decisions') = Len(decisions) + 1
             \/ pc' = "raised"]_vars

\* A returned plan over at least two candidates in which a skipped candidate
\* is followed by a committed one, so the plan is a proper subsequence.
C26_Witness ==
    /\ PlanReturned
    /\ Len(candidates) >= 2
    /\ Len(planned_migrations) >= 1
    /\ Len(planned_migrations) < Len(candidates)
    /\ \E i \in 1..Len(decisions) : i \notin Commits /\ \E j \in Commits : j > i

\* The hosts for which iteration d asked get_host_traits: those it scored for
\* which the server was found to require a trait.
TraitsAsked(d) ==
    {h \in DOMAIN d.vm_ok :
        get_required_traits(VmOf(servers, d.vm), d.vm_ok[h]) # {}}

\* One iteration of the planner against the trait cache it started with: cached
\* hosts are answered from the cache without a call and keep their entry, every
\* other asked host is looked up, a successful lookup stores the host's traits,
\* a failed one stores nothing and counts as the empty set.
TraitCacheStep(cache, after, d) ==
    LET called == DOMAIN d.pl
        Returned(h) == IF h \in DOMAIN cache THEN cache[h]
                       ELSE IF d.pl[h] = "ok" THEN host_traits[h] ELSE {}
    IN  /\ called = TraitsAsked(d) \ DOMAIN cache
        /\ DOMAIN after = DOMAIN cache \cup {h \in called : d.pl[h] = "ok"}
        /\ \A h \in DOMAIN cache : after[h] = cache[h]
        /\ \A h \in called : d.pl[h] = "ok" => after[h] = host_traits[h]
        /\ \A h \in TraitsAsked(d) :
              h \in d.compatible <=>
                  get_required_traits(VmOf(servers, d.vm), d.vm_ok[h]) \subseteq Returned(h)

\* C25: trait cache -- once a provider and traits lookup for a host succeeded,
\* every later get_host_traits call for that host returns the stored set
\* without a call to the placement service; a failed lookup, or a host without
\* resource provider, gives the empty set, stores no trait set, and is looked
\* up again at the next call.
C25_TraitCache ==
    [][Len(decisions') = Len(decisions) + 1 =>
          TraitCacheStep(host_traits_cache, host_traits_cache',
                         decisions'[Len(decisions')])]_vars

\* Two iterations asked for the traits of one host: the first looked them up
\* with success, the second made no call.
C25_Witness ==
    /\ Len(decisions) = 2
    /\ \E h \in DOMAIN decisions[1].pl :
          /\ decisions[1].pl[h] = "ok"
          /\ h \in TraitsAsked(decisions[2])
          /\ h \notin DOMAIN decisions[2].pl
          /\ host_traits_cache[h] = host_traits[h]

\* The manager was constructed from an enumeration of flavors.
FlavorsCached == scenario = "flavors" /\ pc = "idle"

\* C27: flavor cache keys -- after cache_flavors every enumerated flavor is the
\* entry under its id, also when another flavor has that id as its name, and
\* every flavor name is a key (of a flavor with that name unless it is the id
\* of one), whatever the order of the enumeration.
C27_FlavorCacheKeys ==
    FlavorsCached =>
        \A i \in 1..Len(compute_flavors) :
            /\ compute_flavors[i].id \in DOMAIN manager_flavor_cache
            /\ manager_flavor_cache[compute_flavors[i].id] = compute_flavors[i]
            /\ compute_flavors[i].name \in DOMAIN manager_flavor_cache
            /\ (\A j \in 1..Len(compute_flavors) : compute_flavors[j].id # compute_flavors[i].name)
                  => manager_flavor_cache[compute_flavors[i].name].name = compute_flavors[i].name

\* Two flavors were enumerated, the second named like the id of the first, and
\* under that key the cache holds the second.
C27_Failing ==
    /\ FlavorsCached
    /\ Len(compute_flavors) = 2
    /\ compute_flavors[1].id = "a" /\ compute_flavors[1].name = "small"
    /\ compute_flavors[2].id = "b" /\ compute_flavors[2].name = "a"
    /\ manager_flavor_cache["a"] = compute_flavors[2]
    /\ manager_flavor_cache["small"] = compute_flavors[1]

\* The traits get_host_traits gave, or would have given, for host h in
\* iteration d: none where the lookup failed, else the host's traits.
ObservedTraits(d, h) ==
    IF h \in DOMAIN d.pl /\ d.pl[h] # "ok" THEN {} ELSE host_traits[h]

\* Some host other than the source is, in the state iteration i decided on, at
\* or below the target utilization with room for the flavor and has every
\* trait the server requires.
TargetExists(i) ==
    LET d == decisions[i]
    IN  \E h \in DOMAIN d.sim \ {d.source} :
          /\ EligibleIn(d.sim, h, flavor_cache[d.flavor])
          /\ TrueRequiredTraits(VmOf(servers, d.vm)) \subseteq ObservedTraits(d, h)

\* C21: a move is emitted exactly when a target exists -- for every candidate a
\* move is committed and appended iff some host other than its source is at or
\* below the target utilization, has the vCPUs and memory of the flavor and all
\* traits the VM requires; otherwise the VM is skipped and the state is left
\* as it was.  In S2 the plan is [(v1, A, B)], in S4 it is empty.
C21_MoveIffTarget ==
    /\ \A i \in 1..Len(decisions) :
          /\ i \in Commits <=> TargetExists(i)
          /\ i \notin Commits =>
                /\ SimAfter(i) = decisions[i].sim
                /\ \A mv \in Moves : mv[1] # decisions[i].vm
    /\ (scenario = "S2" /\ PlanReturned) =>
          planned_migrations = << << "v1", "A", "B" >> >>
    /\ (scenario = "S4" /\ PlanReturned) => planned_migrations = << >>

\* A move was emitted for a server that requires a trait no other host has:
\* the fetch of its record failed, so no target exists and yet it was planned.
C21_Failing ==
    /\ PlanReturned
    /\ \E i \in Commits :
          /\ ~TargetExists(i)
          /\ decisions[i].fetch_failed
          /\ << decisions[i].vm, decisions[i].source, decisions[i].target >> \in Moves

\* C22: least-loaded choice under successive commits (S5) -- every move of S5
\* goes to the host that, among the eligible targets B and C, has the lowest
\* simulated utilization in the state with the earlier commits.
C22_LeastLoaded ==
    scenario = "S5" =>
        \A i \in Commits :
            \A h \in EligibleTargets(i) :
                RLe(CurrentUtilization(decisions[i].sim, decisions[i].target),
                    CurrentUtilization(decisions[i].sim, h))

\* S5 with idle targets: v1 went to B, and v2 and v3 went to B as well, each
\* time although C was eligible with a strictly lower utilization.
C22_Failing ==
    /\ scenario = "S5"
    /\ PlanReturned
    /\ hypervisors[2].vcpus_used = 0
    /\ planned_migrations =
          << << "v1", "A", "B" >>, << "v2", "A", "B" >>, << "v3", "A", "B" >> >>
    /\ \A i \in {2, 3} :
          /\ "C" \in EligibleTargets(i)
          /\ RLt(CurrentUtilization(decisions[i].sim, "C"),
                 CurrentUtilization(decisions[i].sim, "B"))

\* The initial simulation of S5 after host h has taken two of A's servers.
AfterTwo(h) ==
    [g \in DOMAIN sim0 |->
        IF g = h
        THEN [sim0[g] EXCEPT !.vcpus_used = @ + 2 * flavor_cache["f4"].vcpus,
                             !.memory_mb_used = @ + 2 * flavor_cache["f4"].ram,
                             !.running_vms = @ + 2]
        ELSE IF g = HostSeq[1]
        THEN [sim0[g] EXCEPT !.vcpus_used = @ - 2 * flavor_cache["f4"].vcpus,
                             !.memory_mb_used = @ - 2 * flavor_cache["f4"].ram,
                             !.running_vms = @ - 2]
        ELSE sim0[g]]

\* Host h, having taken two of the servers, is above 0.9 x the mean utilization.
ExceedsAfterTwo(h) ==
    RLt(RMul(Rat(TARGET_FRACTION_NUM, TARGET_FRACTION_DEN), MeanUtilization(AfterTwo(h))),
        CurrentUtilization(AfterTwo(h), h))

\* C23: moves are spread (S5) -- if B or C, having absorbed two of the three
\* servers, would be above the target utilization, then three emitted moves
\* do not all have the same target.
C23_MovesSpread ==
    (scenario = "S5" /\ PlanReturned /\ Len(planned_migrations) = 3
        /\ \E h \in DOMAIN sim0 \ {HostSeq[1]} : ExceedsAfterTwo(h))
    => \E a, b \in 1..3 : planned_migrations[a][3] # planned_migrations[b][3]

\* S5 ended with three moves, two to one host that was then above the target
\* utilization, and the third to the other host.
C23_Witness ==
    /\ scenario = "S5"
    /\ PlanReturned
    /\ Len(planned_migrations) = 3
    /\ planned_migrations[1][3] = planned_migrations[2][3]
    /\ ExceedsAfterTwo(planned_migrations[1][3])
    /\ planned_migrations[3][3] # planned_migrations[1][3]

====
